---- MODULE Spec2Model ----
(***************************************************************************)
(* Model of the RayTracingSimulation component (src/App.tsx): the mount    *)
(* effect, the HDRI load callbacks, the lil-gui panel controllers, the     *)
(* requestAnimationFrame loop, the window resize handler and the effect    *)
(* cleanup.                                                                *)
(*                                                                         *)
(* Units.  Material scalars and exposure are in thousandths (1.0 = 1000).  *)
(* Positions are in 1e-4 scene units (1.2 = 12000).  Angles are exact      *)
(* rational multiples of pi, <<n, d>> in lowest terms.  Ratios of integers *)
(* (camera aspect) are exact rationals <<n, d>> in lowest terms.           *)
(***************************************************************************)
EXTENDS Integers, Sequences, FiniteSets, TLC

(* ------------------------------ bounds --------------------------------- *)
\* largest window.innerWidth / innerHeight the host reports
MaxDim == 2
\* largest Date.now()*0.001 value (whole seconds) sampled by animate
MaxTime == 1
\* at most this many panel edits per session
MaxEdits == 2
\* requestAnimationFrame handles are identified modulo this
HandleSpace == 2

(* ------------------------- program constants --------------------------- *)
NoTexture == 0
\* the single DataTexture the RGBELoader produces for hdriUrl
HdriTexture == 1
MaxPixelRatio == 2
MetalnessMin == 0
MetalnessMax == 1000
RoughnessMin == 0
RoughnessMax == 1000
ExposureMin == 0
ExposureMax == 2000
RotationMin == 0
RotationMax == 360
Silver == 16777215
Gold == 16755200

(* --------------------------- input samples ----------------------------- *)
Dims == 1..MaxDim
Times == 0..MaxTime
DevicePixelRatios == {3}
MetalnessInputs == {v \in {300} : v >= MetalnessMin /\ v <= MetalnessMax}
RoughnessInputs == {v \in {500} : v >= RoughnessMin /\ v <= RoughnessMax}
ColorInputs == {65280}
ExposureInputs == {v \in {0, 2000} : v >= ExposureMin /\ v <= ExposureMax}
RotationInputs == {v \in {90, 360} : v >= RotationMin /\ v <= RotationMax}

(* ---------------------------- arithmetic ------------------------------- *)
RECURSIVE GCD(_, _)
GCD(a, b) == IF b = 0 THEN a ELSE GCD(b, a % b)

\* the exact quotient n / d (d > 0) in lowest terms
Quot(n, d) == LET g == GCD(n, d) IN <<n \div g, d \div g>>

\* product of two exact rationals
Times2(p, q) == Quot(p[1] * q[1], p[2] * q[2])

\* Math.PI / 180, as a multiple of pi
PiOver180 == Quot(1, 180)

Min(a, b) == IF a < b THEN a ELSE b

\* Math.sin(t) in thousandths, t in whole radians
SinMilli(t) ==
  CASE t = 0 -> 0    [] t = 1 -> 841  [] t = 2 -> 909  [] t = 3 -> 141
    [] t = 4 -> -757 [] t = 5 -> -959 [] t = 6 -> -279 [] t = 7 -> 657
    [] t = 8 -> 989  [] t = 9 -> 412  [] t = 10 -> -544 [] t = 11 -> -1000
    [] OTHER -> -537

VARIABLES
  session,             \* "unmounted" | "live" | "torn": position of the effect
  loading,             \* React state `loading`
  mountChildren,       \* children of mountRef.current
  window,              \* host window: innerWidth, innerHeight, devicePixelRatio
  listeners,           \* window 'resize' listeners
  camera,              \* aspect, projectionAspect (aspect baked in the matrix)
  renderer,            \* size, pixelRatio, toneMapping, toneMappingExposure
  controls,            \* OrbitControls damping settings
  scene,               \* background, environment, rotations, children
  environmentTexture,  \* closure slot
  textureMapping,      \* mapping of the loaded texture
  fetch,               \* "idle" | "pending" | "loaded" | "failed"
  loadsIssued,         \* number of hdriLoader.load calls
  consoleErrors,       \* number of console.error calls
  disposed,            \* resources released by explicit dispose()
  textureDisposeCalls, \* number of environmentTexture.dispose() calls
  material1, material2,
  sphere1, sphere2,    \* mesh positions
  envParams,
  gui,                 \* "none" | "open" | "destroyed"
  animationId,
  rafPending,          \* frame callbacks requested and not yet run or cancelled
  lastHandle,          \* last handle requestAnimationFrame returned
  rendered,            \* renderer.render has drawn a frame
  resizeRuns,          \* runs of onWindowResize in a row at the current
                       \* size: 0, 1, or 2 for two or more
  edits                \* panel edits made so far

vars == <<session, loading, mountChildren, window, listeners, camera, renderer,
          controls, scene, environmentTexture, textureMapping, fetch,
          loadsIssued, consoleErrors, disposed, textureDisposeCalls,
          material1, material2, sphere1, sphere2, envParams, gui,
          animationId, rafPending, lastHandle, rendered, resizeRuns,
          edits>>

(* ----------------------- state before the effect ----------------------- *)
Init ==
  /\ session = "unmounted"
  /\ loading = TRUE
  /\ mountChildren = {}
  /\ \E w \in Dims, h \in Dims, r \in DevicePixelRatios :
       window = [innerWidth |-> w, innerHeight |-> h, devicePixelRatio |-> r]
  /\ listeners = {}
  /\ camera = [aspect |-> <<0, 1>>, projectionAspect |-> <<0, 1>>, z |-> 0]
  /\ renderer = [size |-> <<0, 0>>, pixelRatio |-> 0, toneMapping |-> "none",
                 toneMappingExposure |-> 0]
  /\ controls = [enableDamping |-> FALSE, dampingFactor |-> 0]
  /\ scene = [background |-> NoTexture, environment |-> NoTexture,
              backgroundRotationY |-> <<0, 1>>,
              environmentRotationY |-> <<0, 1>>, children |-> {}]
  /\ environmentTexture = NoTexture
  /\ textureMapping = "none"
  /\ fetch = "idle"
  /\ loadsIssued = 0
  /\ consoleErrors = 0
  /\ disposed = {}
  /\ textureDisposeCalls = 0
  /\ material1 = [color |-> 0, metalness |-> 0, roughness |-> 0]
  /\ material2 = [color |-> 0, metalness |-> 0, roughness |-> 0]
  /\ sphere1 = [x |-> 0, y |-> 0]
  /\ sphere2 = [x |-> 0, y |-> 0]
  /\ envParams = [exposure |-> 0, rotation |-> 0]
  /\ gui = "none"
  /\ animationId = 0
  /\ rafPending = {}
  /\ lastHandle = 0
  /\ rendered = FALSE
  /\ resizeRuns = 0
  /\ edits = 0

(* ------------------------- host primitives ----------------------------- *)
\* handle returned by the next requestAnimationFrame call
NextHandle(last) == (last % HandleSpace) + 1

\* requestAnimationFrame(cb): cb is queued under handle id
requestAnimationFrame(pending, id) == pending \cup {id}

\* variant: the cancel is lost
cancelAnimationFrame_lost(pending, id) == pending

\* cancelAnimationFrame(id): the callback queued under id will not run
cancelAnimationFrame(pending, id) == pending \ {id}

\* window.innerWidth / window.innerHeight
WindowAspect(win) == Quot(win.innerWidth, win.innerHeight)

\* React state setter of `loading`; the load callbacks call it without
\* looking at the session
setLoading(v) == loading' = v

(* ------------------- step 6: the animation loop ------------------------ *)
\* sphere1.position.y = Math.sin(time) * 0.1
Sphere1Y(t) == SinMilli(t)
\* sphere2.position.y = Math.sin(time + 2) * 0.1
Sphere2Y(t) == SinMilli(t + 2)

\* variant: the loop reschedules itself only once the fetch has resolved
animate_waitsForLoad(pending, s1, s2, t) ==
  LET id == NextHandle(lastHandle) IN
  /\ lastHandle' = id
  /\ animationId' = id
  /\ rafPending' = IF fetch \in {"loaded", "failed"}
                     THEN requestAnimationFrame(pending, id)
                     ELSE pending
  /\ sphere1' = [s1 EXCEPT !.y = Sphere1Y(t)]
  /\ sphere2' = [s2 EXCEPT !.y = Sphere2Y(t)]
  /\ rendered' = TRUE

\* one call of animate(): `pending` is the frame queue at the call, s1 and
\* s2 the meshes at the call, t the value of Date.now() * 0.001
animate(pending, s1, s2, t) ==
  LET id == NextHandle(lastHandle) IN
  /\ lastHandle' = id
  /\ animationId' = id
  /\ rafPending' = requestAnimationFrame(pending, id)
  /\ sphere1' = [s1 EXCEPT !.y = Sphere1Y(t)]
  /\ sphere2' = [s2 EXCEPT !.y = Sphere2Y(t)]
  /\ rendered' = TRUE

(* ------------------- the resize handler -------------------------------- *)
\* variant: the aspect is computed as height / width
onWindowResizeCamera_inverted(cam, win) ==
  [cam EXCEPT !.aspect = Quot(win.innerHeight, win.innerWidth),
              !.projectionAspect = Quot(win.innerHeight, win.innerWidth)]

\* camera.aspect = w / h; camera.updateProjectionMatrix()
onWindowResizeCamera(cam, win) ==
  [cam EXCEPT !.aspect = WindowAspect(win),
              !.projectionAspect = WindowAspect(win)]

\* renderer.setSize(w, h)
onWindowResizeRenderer(rnd, win) ==
  [rnd EXCEPT !.size = <<win.innerWidth, win.innerHeight>>]

(* ------------------- step 3: the load callbacks ------------------------ *)
\* variant: the texture is assigned as background only
onLoad_backgroundOnly(texture) ==
  /\ textureMapping' = "EquirectangularReflectionMapping"
  /\ scene' = [scene EXCEPT !.background = texture]
  /\ environmentTexture' = texture
  /\ setLoading(FALSE)
  /\ UNCHANGED consoleErrors

\* success callback of hdriLoader.load
onLoad(texture) ==
  /\ textureMapping' = "EquirectangularReflectionMapping"
  /\ scene' = [scene EXCEPT !.background = texture, !.environment = texture]
  /\ environmentTexture' = texture
  /\ setLoading(FALSE)
  /\ UNCHANGED consoleErrors

\* variant: the failure is logged and the loading flag left alone
onError_keepsLoading ==
  /\ consoleErrors' = consoleErrors + 1
  /\ UNCHANGED <<loading, textureMapping, scene, environmentTexture>>

\* error callback of hdriLoader.load
onError ==
  /\ consoleErrors' = consoleErrors + 1
  /\ setLoading(FALSE)
  /\ UNCHANGED <<textureMapping, scene, environmentTexture>>

(* ------------------- step 5: the panel controllers --------------------- *)
\* a lil-gui controller writes the bound property of its target object
controllerSet(target, prop, v) == [target EXCEPT ![prop] = v]

\* variant: the handler does not reach the renderer
exposureOnChange_dropped(rnd, v) == rnd

\* onChange of 'Brightness'
exposureOnChange(rnd, v) == [rnd EXCEPT !.toneMappingExposure = v]

\* const radians = v * (Math.PI / 180)
Radians(v) == Times2(<<v, 1>>, PiOver180)

\* variant: only the background is rotated
rotationOnChange_backgroundOnly(sc, v) ==
  [sc EXCEPT !.backgroundRotationY = Radians(v)]

\* onChange of 'Rotate World'
rotationOnChange(sc, v) ==
  [sc EXCEPT !.backgroundRotationY = Radians(v),
             !.environmentRotationY = Radians(v)]

(* ------------------- the mount effect ---------------------------------- *)
\* body of useEffect; mountRef.current is attached when effects run
Mount ==
  /\ session = "unmounted"
  /\ session' = "live"
  /\ camera' = [aspect |-> WindowAspect(window),
                projectionAspect |-> WindowAspect(window), z |-> 6]
  /\ renderer' = [size |-> <<window.innerWidth, window.innerHeight>>,
                  pixelRatio |-> Min(window.devicePixelRatio, MaxPixelRatio),
                  toneMapping |-> "ACESFilmicToneMapping",
                  toneMappingExposure |-> 1000]
  /\ mountChildren' = mountChildren \cup {"canvas"}
  /\ controls' = [enableDamping |-> TRUE, dampingFactor |-> 50]
  /\ fetch' = "pending"
  /\ loadsIssued' = loadsIssued + 1
  /\ material1' = [color |-> Silver, metalness |-> 1000, roughness |-> 50]
  /\ material2' = [color |-> Gold, metalness |-> 1000, roughness |-> 200]
  /\ scene' = [scene EXCEPT !.children = {"sphere1", "sphere2"}]
  /\ gui' = "open"
  /\ envParams' = [exposure |-> 1000, rotation |-> 0]
  /\ \E t \in Times :
       animate(rafPending, [x |-> -12000, y |-> 0], [x |-> 12000, y |-> 0], t)
  /\ listeners' = listeners \cup {"onWindowResize"}
  /\ UNCHANGED <<loading, window, environmentTexture, textureMapping,
                 consoleErrors, disposed, textureDisposeCalls, resizeRuns,
                 edits>>

(* ------------------- host events --------------------------------------- *)
\* the host runs the frame callback queued under handle h
FrameCallback ==
  \E h \in rafPending, t \in Times :
    /\ animate(rafPending \ {h}, sphere1, sphere2, t)
    /\ UNCHANGED <<session, loading, mountChildren, window, listeners, camera,
                   renderer, controls, scene, environmentTexture,
                   textureMapping, fetch, loadsIssued, consoleErrors, disposed,
                   textureDisposeCalls, material1, material2, envParams, gui,
                   resizeRuns, edits>>

\* the fetch resolves with the decoded texture
LoadSuccess ==
  /\ fetch = "pending"
  /\ fetch' = "loaded"
  /\ onLoad(HdriTexture)
  /\ UNCHANGED <<session, mountChildren, window, listeners, camera, renderer,
                 controls, loadsIssued, disposed, textureDisposeCalls,
                 material1, material2, sphere1, sphere2, envParams, gui,
                 animationId, rafPending, lastHandle, rendered, resizeRuns,
                 edits>>

\* the fetch fails
LoadError ==
  /\ fetch = "pending"
  /\ fetch' = "failed"
  /\ onError
  /\ UNCHANGED <<session, mountChildren, window, listeners, camera, renderer,
                 controls, loadsIssued, disposed, textureDisposeCalls,
                 material1, material2, sphere1, sphere2, envParams, gui,
                 animationId, rafPending, lastHandle, rendered, resizeRuns,
                 edits>>

\* the host window takes dimensions w x h and dispatches 'resize' to the
\* registered listener
WindowResize ==
  \E w \in Dims, h \in Dims :
    LET win == [window EXCEPT !.innerWidth = w, !.innerHeight = h] IN
    /\ "onWindowResize" \in listeners
    /\ window' = win
    /\ camera' = onWindowResizeCamera(camera, win)
    /\ renderer' = onWindowResizeRenderer(renderer, win)
    /\ resizeRuns' = IF resizeRuns = 0 \/ win # window
                       THEN 1
                       ELSE Min(resizeRuns + 1, 2)
    /\ UNCHANGED <<session, loading, mountChildren, listeners, controls, scene,
                   environmentTexture, textureMapping, fetch, loadsIssued,
                   consoleErrors, disposed, textureDisposeCalls, material1,
                   material2, sphere1, sphere2, envParams, gui, animationId,
                   rafPending, lastHandle, rendered, edits>>

(* ------------------- panel edits --------------------------------------- *)
\* the panel accepts input while it is on screen
PanelOpen == gui = "open" /\ edits < MaxEdits

\* what no panel edit touches
PanelFrame ==
  /\ edits' = edits + 1
  /\ UNCHANGED <<session, loading, mountChildren, window, listeners, camera,
                 controls, environmentTexture, textureMapping, fetch,
                 loadsIssued, consoleErrors, disposed, textureDisposeCalls,
                 sphere1, sphere2, gui, animationId, rafPending, lastHandle,
                 rendered, resizeRuns>>

\* variant: both meshes share one material object
Folder1Metalness_sharedMaterial ==
  \E v \in MetalnessInputs :
    /\ PanelOpen /\ PanelFrame
    /\ material1' = controllerSet(material1, "metalness", v)
    /\ material2' = controllerSet(material2, "metalness", v)
    /\ UNCHANGED <<envParams, renderer, scene>>

\* folder1.add(material1, 'metalness', 0, 1)
Folder1Metalness ==
  \E v \in MetalnessInputs :
    /\ PanelOpen /\ PanelFrame
    /\ material1' = controllerSet(material1, "metalness", v)
    /\ UNCHANGED <<material2, envParams, renderer, scene>>

\* folder1.add(material1, 'roughness', 0, 1)
Folder1Roughness ==
  \E v \in RoughnessInputs :
    /\ PanelOpen /\ PanelFrame
    /\ material1' = controllerSet(material1, "roughness", v)
    /\ UNCHANGED <<material2, envParams, renderer, scene>>

\* folder1.addColor(material1, 'color')
Folder1Color ==
  \E v \in ColorInputs :
    /\ PanelOpen /\ PanelFrame
    /\ material1' = controllerSet(material1, "color", v)
    /\ UNCHANGED <<material2, envParams, renderer, scene>>

\* folder2.add(material2, 'metalness', 0, 1)
Folder2Metalness ==
  \E v \in MetalnessInputs :
    /\ PanelOpen /\ PanelFrame
    /\ material2' = controllerSet(material2, "metalness", v)
    /\ UNCHANGED <<material1, envParams, renderer, scene>>

\* folder2.add(material2, 'roughness', 0, 1)
Folder2Roughness ==
  \E v \in RoughnessInputs :
    /\ PanelOpen /\ PanelFrame
    /\ material2' = controllerSet(material2, "roughness", v)
    /\ UNCHANGED <<material1, envParams, renderer, scene>>

\* folder2.addColor(material2, 'color')
Folder2Color ==
  \E v \in ColorInputs :
    /\ PanelOpen /\ PanelFrame
    /\ material2' = controllerSet(material2, "color", v)
    /\ UNCHANGED <<material1, envParams, renderer, scene>>

\* envFolder.add(envParams, 'exposure', 0, 2).onChange(...)
EnvExposure ==
  \E v \in ExposureInputs :
    /\ PanelOpen /\ PanelFrame
    /\ envParams' = controllerSet(envParams, "exposure", v)
    /\ renderer' = exposureOnChange(renderer, v)
    /\ UNCHANGED <<material1, material2, scene>>

\* envFolder.add(envParams, 'rotation', 0, 360).onChange(...)
EnvRotation ==
  \E v \in RotationInputs :
    /\ PanelOpen /\ PanelFrame
    /\ envParams' = controllerSet(envParams, "rotation", v)
    /\ scene' = rotationOnChange(scene, v)
    /\ UNCHANGED <<material1, material2, renderer>>

(* ------------------- the effect cleanup -------------------------------- *)
\* variant: the texture is never released
disposeEnvironmentTexture_never(slot, calls) == calls

\* if (environmentTexture) environmentTexture.dispose()
disposeEnvironmentTexture(slot, calls) ==
  IF slot # NoTexture THEN calls + 1 ELSE calls

\* the function returned by the effect; refAttached is mountRef.current
\* being non-null when React runs it
cleanup(refAttached) ==
  /\ listeners' = listeners \ {"onWindowResize"}
  /\ rafPending' = cancelAnimationFrame(rafPending, animationId)
  /\ mountChildren' = IF refAttached THEN mountChildren \ {"canvas"}
                                     ELSE mountChildren
  /\ disposed' = disposed \cup {"geometry", "material1", "material2",
                                "renderer"}
  /\ textureDisposeCalls' =
       disposeEnvironmentTexture(environmentTexture, textureDisposeCalls)
  /\ gui' = "destroyed"

\* React unmounts the component and runs the cleanup, once
Unmount ==
  /\ session = "live"
  /\ session' = "torn"
  /\ \E refAttached \in BOOLEAN : cleanup(refAttached)
  /\ UNCHANGED <<loading, window, camera, renderer, controls, scene,
                 environmentTexture, textureMapping, fetch, loadsIssued,
                 consoleErrors, material1, material2, sphere1, sphere2,
                 envParams, animationId, lastHandle, rendered, resizeRuns,
                 edits>>

(* ------------------- specifications ------------------------------------ *)
Next ==
  \/ Mount
  \/ FrameCallback
  \/ LoadSuccess
  \/ LoadError
  \/ WindowResize
  \/ Folder1Metalness
  \/ Folder1Roughness
  \/ Folder1Color
  \/ Folder2Metalness
  \/ Folder2Roughness
  \/ Folder2Color
  \/ EnvExposure
  \/ EnvRotation
  \/ Unmount

Spec == Init /\ [][Next]_vars

\* React runs the effect of a mounted component, and the host keeps
\* presenting frames: a queued frame callback is eventually run
FairSpec == Spec /\ WF_vars(Mount) /\ WF_vars(FrameCallback)

TypeOK ==
  /\ session \in {"unmounted", "live", "torn"}
  /\ loading \in BOOLEAN
  /\ fetch \in {"idle", "pending", "loaded", "failed"}
  /\ Cardinality(rafPending) <= 1
  /\ rendered \in BOOLEAN
  /\ resizeRuns \in 0..2
  /\ edits \in 0..MaxEdits

(* ------------------- properties ---------------------------------------- *)

\* C1: once the session is torn down, a load callback that arrives (success
\* or failure) changes neither the scene's background nor its environment,
\* nor the environment-texture slot, nor the loading flag.
LateLoadCallbackIsNoOp ==
  [][(session = "torn" /\ fetch = "pending" /\ fetch' # "pending")
       => /\ scene'.background = scene.background
          /\ scene'.environment = scene.environment
          /\ environmentTexture' = environmentTexture
          /\ loading' = loading]_vars

\* C2: the environment texture is never released before teardown; the
\* teardown step releases it exactly once if the load had succeeded and not
\* at all if the load was pending or had failed; no other step releases it.
TextureReleasedOnlyAtTeardown ==
  /\ [](session # "torn" => textureDisposeCalls = 0)
  /\ [][IF session = "live" /\ session' = "torn"
          THEN textureDisposeCalls' = IF fetch = "loaded" THEN 1 ELSE 0
          ELSE textureDisposeCalls' = textureDisposeCalls]_vars

TeardownAfterLoadReleased ==
  session = "torn" /\ fetch = "loaded" /\ textureDisposeCalls = 1

\* C3: after teardown no frame callback is queued and no step is an animate
\* step: no new frame handle, no position update, no controls.update/render.
NoAnimateAfterTeardown ==
  /\ [](session = "torn" => rafPending = {})
  /\ [][session = "torn"
          => UNCHANGED <<animationId, lastHandle, rafPending, sphere1,
                         sphere2, rendered>>]_vars

TornAfterFrames ==
  session = "torn" /\ rendered /\ animationId = 2 /\ fetch # "pending"

\* C4: after a failed fetch the error is logged, the loading flag is clear,
\* background, environment and the texture slot are null and only one fetch
\* was issued; after a successful fetch the loading flag is clear; once
\* clear the loading flag stays clear.
LoadOutcomeClearsLoading ==
  /\ [](fetch = "failed"
          => /\ ~loading
             /\ consoleErrors = 1
             /\ scene.background = NoTexture
             /\ scene.environment = NoTexture
             /\ environmentTexture = NoTexture
             /\ loadsIssued = 1)
  /\ [](fetch = "loaded" => ~loading)
  /\ [][~loading => ~loading']_vars

FailedLoadSeen ==
  session = "live" /\ fetch = "failed" /\ ~loading /\ animationId = 2

\* C5: a live session always has exactly one frame callback queued and has
\* run animate at least once, whatever the fetch state; and if the session
\* stays live forever, frame steps are taken infinitely often.
RenderLoopNeverBlocked ==
  /\ [](session = "live" => Cardinality(rafPending) = 1 /\ rendered)
  /\ (<>[](session = "live") => []<><<FrameCallback>>_vars)

FramesWhilePending ==
  session = "live" /\ fetch = "pending" /\ rendered /\ animationId = 2

\* C6: one fetch is issued per session, and background, environment and the
\* texture slot are all null unless the success callback has run, in which
\* case all three are the one loaded texture.
SingleEnvironmentAsset ==
  /\ loadsIssued <= 1
  /\ session # "unmounted" => loadsIssued = 1
  /\ LET t == IF fetch = "loaded" THEN HdriTexture ELSE NoTexture IN
       /\ scene.background = t
       /\ scene.environment = t
       /\ environmentTexture = t

EnvironmentLoaded ==
  session = "live" /\ fetch = "loaded" /\ environmentTexture = HdriTexture

\* C7: while the handler is registered the camera aspect is width/height
\* of the window and the surface size is the window size, and a run of the
\* handler at the size of its previous run changes neither.
ResizeIdempotent ==
  /\ []("onWindowResize" \in listeners
          => /\ camera.aspect
                  = Quot(window.innerWidth, window.innerHeight)
             /\ renderer.size = <<window.innerWidth, window.innerHeight>>)
  /\ [][(resizeRuns >= 1 /\ resizeRuns' > resizeRuns)
          => /\ camera'.aspect = camera.aspect
             /\ renderer'.size = renderer.size]_vars

ResizedTwiceSameSize ==
  /\ session = "live"
  /\ resizeRuns >= 2
  /\ window.innerWidth = 2 /\ window.innerHeight = 1
  /\ camera.aspect = <<2, 1>>

\* C8: background and environment y rotation both equal d*pi/180 for the
\* panel's rotation value d, from mount on (both 0 for the initial d = 0).
RotationFollowsPanel ==
  session # "unmounted"
    => /\ scene.backgroundRotationY = Quot(envParams.rotation, 180)
       /\ scene.environmentRotationY = Quot(envParams.rotation, 180)

RotatedQuarterTurn ==
  /\ envParams.rotation = 90
  /\ scene.backgroundRotationY = <<1, 2>>
  /\ scene.environmentRotationY = <<1, 2>>

\* C9: from mount on the renderer's exposure equals the panel's exposure
\* value, and only a panel edit of the exposure changes it.
ExposureFollowsPanel ==
  /\ [](session # "unmounted"
          => renderer.toneMappingExposure = envParams.exposure)
  /\ [][(session # "unmounted"
          /\ renderer'.toneMappingExposure # renderer.toneMappingExposure)
          => /\ edits' = edits + 1
             /\ envParams'.exposure = renderer'.toneMappingExposure
             /\ envParams'.exposure \in ExposureInputs]_vars

ExposureDoubled ==
  /\ session = "live"
  /\ envParams.exposure = 2000
  /\ renderer.toneMappingExposure = 2000

\* C10: a step that changes one field of one sphere's material is a panel
\* edit that leaves that material's other fields, the other material and
\* the mesh positions alone; a step that moves a mesh changes no material.
MaterialEditsAreLocal ==
  [][session = "live"
       => /\ (material1' # material1
                => /\ material2' = material2
                   /\ edits' = edits + 1
                   /\ Cardinality({f \in DOMAIN material1 :
                                     material1'[f] # material1[f]}) = 1)
          /\ (material2' # material2
                => /\ material1' = material1
                   /\ edits' = edits + 1
                   /\ Cardinality({f \in DOMAIN material2 :
                                     material2'[f] # material2[f]}) = 1)
          /\ (material1'.metalness # material1.metalness
                => material1'.metalness \in MetalnessInputs)
          /\ (material2'.metalness # material2.metalness
                => material2'.metalness \in MetalnessInputs)
          /\ ((sphere1' # sphere1 \/ sphere2' # sphere2)
                => /\ material1' = material1
                   /\ material2' = material2
                   /\ sphere1'.x = sphere1.x
                   /\ sphere2'.x = sphere2.x)]_vars

LeftMetalnessEditedAfterLoad ==
  /\ session = "live"
  /\ fetch = "loaded"
  /\ material1.metalness = 300
  /\ material2 = [color |-> Gold, metalness |-> 1000, roughness |-> 200]

====
